---------------------------- MODULE Spec2Model ----------------------------
(***************************************************************************)
(* Model of ci/s3test.c: the scan-based existence check lookup_file, the   *)
(* error helper eh and the lifecycle driver main, run against a directory  *)
(* tree whose create/unlink calls may fail and whose listing may or may    *)
(* not reflect successful creates and unlinks (the backend under test).    *)
(* C strings are sequences of byte values without the terminating NUL.     *)
(***************************************************************************)
EXTENDS Integers, Sequences, FiniteSets, TLC

(* ------------------------------ bounds -------------------------------- *)
\* how many times the harness invokes the program on the same path
MaxRuns == 2
\* largest number of entries the parent directory holds at the first start
MaxEntries == 3

(* ---------------------------- C constants ----------------------------- *)
ENOENT == 2
EACCES == 13
EISDIR == 21
EBADF == 9
EIO == 5
\* '/'
SLASH == 47
\* process still running (no wait status yet)
RUNNING == -1
\* wait status of return 0 from main
EXIT_OK == 0
\* wait status of exit(1) in eh
EXIT_EH == 1
\* wait status of abort() raised by a failed assert (128 + SIGABRT)
SIGABRT_STATUS == 134
\* wait status of a NULL dereference inside readdir/closedir (128 + SIGSEGV)
SIGSEGV_STATUS == 139
\* first descriptor open() hands out (0, 1, 2 are the standard streams)
FIRST_FD == 3

(* ------------------------- the directory tree -------------------------- *)
\* "d/"
DirD == <<100, 47>>
\* entry names: "ab", its prefix "a", its suffix "b", its case variant "AB"
Names == { <<97, 98>>, <<97>>, <<98>>, <<65, 66>> }
\* directories that exist (and can be opened) in the tree
ExistingDirs == { DirD }
\* command lines: "d/ab", "d/a", "x/ab" (no parent), "d/x/ab" (no parent),
\* "d/" (empty base name)
Paths == { <<100, 47, 97, 98>>, <<100, 47, 97>>, <<120, 47, 97, 98>>,
           <<100, 47, 120, 47, 97, 98>>, <<100, 47>> }
\* errno values a failing open()/unlink() may leave, besides the forced ones
OsErrors == { EACCES, EIO }

(* ----------------------- libc string functions ------------------------ *)
\* the byte at 0-based offset i of a NUL-terminated string
CharAt(s, i) == IF i < Len(s) THEN s[i + 1] ELSE 0

RECURSIVE StrcmpFrom(_, _, _)
StrcmpFrom(a, b, i) ==
  IF CharAt(a, i) # CharAt(b, i) THEN CharAt(a, i) - CharAt(b, i)
  ELSE IF CharAt(a, i) = 0 THEN 0
  ELSE StrcmpFrom(a, b, i + 1)

\* strncmp(a, b, strlen(a)): a wrong comparison that accepts a prefix
StrcmpPrefix(a, b) ==
  IF Len(a) <= Len(b) /\ SubSeq(b, 1, Len(a)) = a THEN 0 ELSE 1

\* strcmp(ep->d_name, fname)
Strcmp(a, b) == StrcmpFrom(a, b, 0)

\* strrchr(s, c): 0-based offset of the last occurrence of c, -1 for NULL
Strrchr(s, c) ==
  IF \E i \in 1..Len(s) : s[i] = c
  THEN (CHOOSE i \in 1..Len(s) : s[i] = c /\ \A j \in (i + 1)..Len(s) : s[j] # c) - 1
  ELSE -1

\* strndup(s, n)
Strndup(s, n) == SubSeq(s, 1, IF n < Len(s) THEN n ELSE Len(s))

\* const char *fname = strrchr(file_path, '/') + 1, as an offset into file_path
FnameOffset(file_path) == Strrchr(file_path, SLASH) + 1
\* the string fname points at
Fname(file_path) == SubSeq(file_path, FnameOffset(file_path) + 1, Len(file_path))
\* char *basedir = strndup(file_path, fname - file_path)
Basedir(file_path) == Strndup(file_path, FnameOffset(file_path))

(* ------------------------------- state -------------------------------- *)
VARIABLES
  argv1,       \* argv[1], the target path
  fs,          \* the tree: existing directory |-> the entry names readdir lists
  consistent,  \* TRUE: the listing reflects every successful create/unlink
  pc,          \* main's position: the statement it executes next
  lpc,         \* lookup_file's position ("idle" outside a call)
  dirp,        \* lookup_file's DIR *dirp: "unset", "NULL" or "DIR"
  pending,     \* entries the open directory stream has not returned yet
  ec,          \* lookup_file's int ec
  fd,          \* main's int fd
  rv,          \* value the last open/close/unlink call returned
  ehret,       \* value the last call of eh returned to main
  errno,       \* errno
  openFds,     \* file descriptors the process holds open
  openDirs,    \* number of directory streams the process holds open
  status,      \* wait status of the process, RUNNING while it runs
  stderr,      \* diagnostics written to the standard error stream
  calls,       \* library/system calls issued by this run, in order
  results,     \* values lookup_file returned in this run, in order
  run,         \* number of the current invocation, 1..MaxRuns
  fs0,         \* the tree when the current invocation started
  osFailed,    \* some open/unlink of this run returned -1
  prev         \* summary of the previous invocation (<<>> for the first)

vars == << argv1, fs, consistent, pc, lpc, dirp, pending, ec, fd, rv, ehret,
           errno, openFds, openDirs, status, stderr, calls, results, run,
           fs0, osFailed, prev >>

envVars == << argv1, consistent, run, fs0, prev >>
lookupVars == << lpc, dirp, pending, ec >>

\* the state of a freshly started process (before main's first statement)
ProcessStart ==
  /\ pc = "assert1"
  /\ lpc = "idle"
  /\ dirp = "unset"
  /\ pending = {}
  /\ ec = 0
  /\ fd = 0
  /\ rv = 0
  /\ ehret = 0
  /\ errno = 0
  /\ openFds = {}
  /\ openDirs = 0
  /\ status = RUNNING
  /\ stderr = << >>
  /\ calls = << >>
  /\ results = << >>
  /\ osFailed = FALSE

Init ==
  /\ argv1 \in Paths
  /\ fs \in [ExistingDirs -> {S \in SUBSET Names : Cardinality(S) <= MaxEntries}]
  /\ consistent \in BOOLEAN
  /\ run = 1
  /\ fs0 = fs
  /\ prev = << >>
  /\ ProcessStart

(* --------------------------------- eh ---------------------------------- *)
\* eh that prints but keeps running (a missing exit)
EhNoExit(msg, v) ==
  [exits |-> FALSE, code |-> EXIT_EH, prints |-> v = -1, msg |-> msg, ret |-> v]

\* eh that exits with the wrong code
EhWrongCode(msg, v) ==
  [exits |-> v = -1, code |-> SIGABRT_STATUS, prints |-> v = -1, msg |-> msg, ret |-> v]

\* int eh(const char *msg, int v): on -1 perror(msg) and exit(1), else return v
Eh(msg, v) ==
  [exits |-> v = -1, code |-> EXIT_EH, prints |-> v = -1, msg |-> msg, ret |-> v]

\* what perror(msg) writes: the message and the text of the current errno
Perror(msg, e) == << msg, e >>

(* ------------------------ main's three asserts ------------------------- *)
Expect1Always(e) == TRUE
Expect1Inverted(e) == e = 0
\* assert(lookup_file(argv[1]) == ENOENT), line 46
Expect1(e) == e = ENOENT

Expect2Always(e) == TRUE
Expect2Inverted(e) == e = ENOENT
\* assert(lookup_file(argv[1]) == 0), line 49
Expect2(e) == e = 0

Expect3Always(e) == TRUE
\* assert(lookup_file(argv[1]) == ENOENT), line 51
Expect3(e) == e = ENOENT

\* where a return placed inside the loop would continue (skips closedir)
BreakSkipsClose == "return"
\* where the break of line 36 continues: the closedir of line 39
BreakTarget == "closedir"

(* ----------------------------- lookup_file ----------------------------- *)
\* lines 26-32: split the path, opendir(basedir), ec = ENOENT
Opendir ==
  /\ status = RUNNING
  /\ pc \in {"assert1", "assert2", "assert3"}
  /\ lpc = "idle"
  /\ calls' = Append(calls, "opendir")
  /\ ec' = ENOENT
  /\ lpc' = "readdir"
  /\ IF Basedir(argv1) \in DOMAIN fs
     THEN /\ dirp' = "DIR"
          /\ pending' = fs[Basedir(argv1)]
          /\ openDirs' = openDirs + 1
          /\ errno' = errno
     ELSE /\ dirp' = "NULL"
          /\ pending' = {}
          /\ openDirs' = openDirs
          /\ errno' = ENOENT
  /\ UNCHANGED << envVars, fs, pc, fd, rv, ehret, openFds, status, stderr,
                  results, osFailed >>

\* the process dies of SIGSEGV inside a libc call on a NULL stream
Segv ==
  /\ status' = SIGSEGV_STATUS
  /\ pc' = "exited"
  /\ UNCHANGED << lpc, ec, errno >>

\* lines 33-37: one readdir and the comparison of the entry it returns.
\* readdir(NULL) is undefined: the process dies, or the call returns NULL.
Readdir ==
  /\ status = RUNNING
  /\ lpc = "readdir"
  /\ calls' = Append(calls, "readdir")
  /\ IF dirp = "NULL"
     THEN /\ \/ Segv
             \/ /\ lpc' = "closedir"
                /\ errno' = EBADF
                /\ UNCHANGED << status, pc, ec >>
          /\ UNCHANGED pending
     ELSE /\ IF pending = {}
             THEN /\ lpc' = "closedir"
                  /\ UNCHANGED << pending, ec >>
             ELSE \E e \in pending :
                    /\ pending' = pending \ {e}
                    /\ IF Strcmp(e, Fname(argv1)) = 0
                       THEN ec' = 0 /\ lpc' = BreakTarget
                       ELSE ec' = ec /\ lpc' = lpc
          /\ UNCHANGED << status, pc, errno >>
  /\ UNCHANGED << envVars, fs, dirp, fd, rv, ehret, openFds, openDirs, stderr,
                  results, osFailed >>

\* line 39: closedir(dirp).  closedir(NULL) is undefined: the process dies,
\* or the call returns -1.
Closedir ==
  /\ status = RUNNING
  /\ lpc = "closedir"
  /\ calls' = Append(calls, "closedir")
  /\ IF dirp = "NULL"
     THEN /\ \/ Segv
             \/ /\ lpc' = "return"
                /\ errno' = EBADF
                /\ UNCHANGED << status, pc, ec >>
          /\ UNCHANGED << openDirs, pending >>
     ELSE /\ lpc' = "return"
          /\ openDirs' = openDirs - 1
          /\ pending' = {}
          /\ UNCHANGED << status, pc, ec, errno >>
  /\ UNCHANGED << envVars, fs, dirp, fd, rv, ehret, openFds, stderr, results,
                  osFailed >>

(* -------------------------------- main --------------------------------- *)
\* line 41 and an assert of main: lookup_file returns ec, the assert either
\* lets main continue at `next` or aborts the process
AssertStep(at, ok, next, line) ==
  /\ status = RUNNING
  /\ pc = at
  /\ lpc = "return"
  /\ results' = Append(results, ec)
  /\ lpc' = "idle"
  /\ dirp' = "unset"
  /\ IF ok
     THEN /\ pc' = next
          /\ UNCHANGED << status, stderr >>
     ELSE /\ pc' = "exited"
          /\ status' = SIGABRT_STATUS
          /\ stderr' = Append(stderr, << "assert", line >>)
  /\ UNCHANGED << envVars, fs, pending, ec, fd, rv, ehret, errno, openFds,
                  openDirs, calls, osFailed >>

\* line 46
AssertAbsent1 == AssertStep("assert1", Expect1(ec), "open", 46)
\* line 49
AssertPresent == AssertStep("assert2", Expect2(ec), "unlink", 49)
\* line 51
AssertAbsent2 == AssertStep("assert3", Expect3(ec), "return", 51)

\* what eh(msg, v) does to the process after a call returned v with errno e
EhStep(msg, v, e, next) ==
  /\ stderr' = IF Eh(msg, v).prints THEN Append(stderr, Perror(Eh(msg, v).msg, e))
               ELSE stderr
  /\ IF Eh(msg, v).exits
     THEN /\ status' = Eh(msg, v).code
          /\ pc' = "exited"
          /\ ehret' = ehret
     ELSE /\ status' = status
          /\ pc' = next
          /\ ehret' = Eh(msg, v).ret
  /\ osFailed' = (osFailed \/ v = -1)

\* the descriptor open() returns: the lowest one not in use
LowestFd == CHOOSE n \in FIRST_FD..(FIRST_FD + Cardinality(openFds)) :
              /\ n \notin openFds
              /\ \A m \in FIRST_FD..(n - 1) : m \in openFds

\* line 47: eh("open", fd = open(argv[1], O_RDWR | O_CREAT))
Create ==
  /\ status = RUNNING
  /\ pc = "open"
  /\ calls' = Append(calls, "open")
  /\ \/ \* the call succeeds: the parent exists and the name is not empty
        /\ Basedir(argv1) \in DOMAIN fs
        /\ Fname(argv1) # << >>
        /\ rv' = LowestFd
        /\ openFds' = openFds \cup {LowestFd}
        /\ errno' = errno
        /\ \/ fs' = [fs EXCEPT ![Basedir(argv1)] = @ \cup {Fname(argv1)}]
           \/ ~consistent /\ fs' = fs
     \/ \* the call fails
        /\ rv' = -1
        /\ errno' \in (IF Basedir(argv1) \notin DOMAIN fs THEN {ENOENT}
                       ELSE IF Fname(argv1) = << >> THEN {EISDIR}
                       ELSE OsErrors)
        /\ UNCHANGED << fs, openFds >>
  /\ fd' = rv'
  /\ EhStep("open", rv', errno', "close")
  /\ UNCHANGED << envVars, lookupVars, openDirs, results >>

\* line 48: close(fd)
Close ==
  /\ status = RUNNING
  /\ pc = "close"
  /\ calls' = Append(calls, "close")
  /\ IF fd \in openFds
     THEN rv' = 0 /\ openFds' = openFds \ {fd} /\ errno' = errno
     ELSE rv' = -1 /\ openFds' = openFds /\ errno' = EBADF
  /\ pc' = "assert2"
  /\ UNCHANGED << envVars, fs, lookupVars, fd, ehret, openDirs, status, stderr,
                  results, osFailed >>

\* line 50: eh("unlink", unlink(argv[1]))
Delete ==
  /\ status = RUNNING
  /\ pc = "unlink"
  /\ calls' = Append(calls, "unlink")
  /\ \/ \* the call succeeds
        /\ Basedir(argv1) \in DOMAIN fs
        /\ Fname(argv1) \in fs[Basedir(argv1)] \/ ~consistent
        /\ rv' = 0
        /\ errno' = errno
        /\ \/ fs' = [fs EXCEPT ![Basedir(argv1)] = @ \ {Fname(argv1)}]
           \/ ~consistent /\ fs' = fs
     \/ \* the call fails
        /\ rv' = -1
        /\ errno' \in (IF Basedir(argv1) \notin DOMAIN fs THEN {ENOENT}
                       ELSE IF Fname(argv1) \notin fs[Basedir(argv1)] THEN {ENOENT}
                       ELSE OsErrors)
        /\ fs' = fs
  /\ EhStep("unlink", rv', errno', "assert3")
  /\ UNCHANGED << envVars, lookupVars, fd, openFds, openDirs, results >>

\* line 53: return 0
Success ==
  /\ status = RUNNING
  /\ pc = "return"
  /\ pc' = "exited"
  /\ status' = EXIT_OK
  /\ UNCHANGED << envVars, fs, lookupVars, fd, rv, ehret, errno, openFds,
                  openDirs, stderr, calls, results, osFailed >>

\* the harness starts the program again on the same path and the same tree
Restart ==
  /\ status # RUNNING
  /\ run < MaxRuns
  /\ run' = run + 1
  /\ prev' = [status |-> status, results |-> results, fs0 |-> fs0, fsEnd |-> fs,
              osFailed |-> osFailed]
  /\ fs0' = fs
  /\ pc' = "assert1"
  /\ lpc' = "idle"
  /\ dirp' = "unset"
  /\ pending' = {}
  /\ ec' = 0
  /\ fd' = 0
  /\ rv' = 0
  /\ ehret' = 0
  /\ errno' = 0
  /\ openFds' = {}
  /\ openDirs' = 0
  /\ status' = RUNNING
  /\ stderr' = << >>
  /\ calls' = << >>
  /\ results' = << >>
  /\ osFailed' = FALSE
  /\ UNCHANGED << argv1, fs, consistent >>

Next ==
  \/ Opendir
  \/ Readdir
  \/ Closedir
  \/ AssertAbsent1
  \/ Create
  \/ Close
  \/ AssertPresent
  \/ Delete
  \/ AssertAbsent2
  \/ Success
  \/ Restart

Spec == Init /\ [][Next]_vars

\* the process is always scheduled: a running program executes its next statement
FairSpec == Spec /\ WF_vars(Next)

(* ----------------------- vocabulary of the claims ---------------------- *)
Terminated == status # RUNNING
ParentExists == Basedir(argv1) \in DOMAIN fs
Target == Fname(argv1)
\* the target is an entry of its parent directory in tree f
Listed(f) == Basedir(argv1) \in DOMAIN f /\ Target \in f[Basedir(argv1)]
Count(name, s) == Cardinality({i \in 1..Len(s) : s[i] = name})
Issued(name) == Count(name, calls) > 0
IsPrefix(s, t) == Len(s) <= Len(t) /\ SubSeq(t, 1, Len(s)) = s
\* the calls that start a lifecycle step of main (a lookup starts with opendir)
IsStep(c) == c \in {"opendir", "open", "close", "unlink"}
Steps(s) == SelectSeq(s, IsStep)
FullOrder == << "opendir", "open", "close", "opendir", "unlink", "opendir" >>
Expected == << ENOENT, 0, ENOENT >>
\* this step issued the call `name`
Calls(name) == Len(calls') = Len(calls) + 1 /\ calls'[Len(calls')] = name

(* ------------------------------- claims -------------------------------- *)

\* C1: a terminated run has exit status 0 if and only if every lifecycle step
\* passed: the three lookups returned ENOENT, 0, ENOENT, the create, the close
\* and the unlink were issued, no OS call failed and the file handle is closed.
AllPassed ==
  /\ results = Expected
  /\ Issued("open") /\ Issued("close") /\ Issued("unlink")
  /\ ~osFailed
  /\ openFds = {}
C1_ExitZeroIffAllPassed ==
  /\ Terminated => (status = EXIT_OK <=> AllPassed)
  /\ ~Terminated => ~(AllPassed /\ pc # "return")
C1_Witness == status = EXIT_OK /\ AllPassed

\* C2: the lifecycle steps are issued in the fixed order lookup, create, close,
\* lookup, unlink, lookup, each at most once; a checkpoint that disagrees
\* aborts the process and a failed create/unlink exits it in that very step;
\* a terminated process issues nothing more and changes nothing.
C2_StepOrder ==
  /\ IsPrefix(Steps(calls'), FullOrder)
  /\ (Len(results') = Len(results) + 1
        /\ results'[Len(results')] # Expected[Len(results')])
       => (pc' = "exited" /\ status' = SIGABRT_STATUS)
  /\ ((Calls("open") \/ Calls("unlink")) /\ rv' = -1)
       => (pc' = "exited" /\ status' # RUNNING /\ status' # EXIT_OK)
  /\ (Terminated /\ run' = run)
       => UNCHANGED << calls, results, fs, status, pc, stderr >>
  /\ status' = EXIT_OK => Steps(calls') = FullOrder
C2_OrderedAndFailedIsTerminal == [][C2_StepOrder]_vars
C2_Witness ==
  /\ status = EXIT_EH
  /\ Steps(calls) = << "opendir", "open", "close", "opendir", "unlink" >>

\* C3: when the target is an entry of its parent directory at the start of a
\* run, no create and no unlink is ever issued in that run, the tree stays as
\* it was at the start, the first lookup returns 0 and the process ends with
\* the abort status of a failed assertion.
C3_ExistingTargetAborts ==
  Listed(fs0) =>
    /\ ~Issued("open") /\ ~Issued("unlink")
    /\ fs = fs0
    /\ pc \in {"assert1", "exited"}
    /\ Len(results) >= 1 => (results = << 0 >> /\ status = SIGABRT_STATUS)
    /\ Terminated => status = SIGABRT_STATUS
C3_Witness == Listed(fs0) /\ status = SIGABRT_STATUS /\ results = << 0 >>

\* C4: when the parent directory was opened, lookup_file returns 0 if the
\* directory holds an entry equal to the base name and ENOENT otherwise,
\* whatever the order of enumeration and whatever other entries exist.
C4_LookupExactMatch ==
  (lpc = "return" /\ dirp = "DIR") =>
     ec = (IF Target \in fs[Basedir(argv1)] THEN 0 ELSE ENOENT)
C4_Witness ==
  /\ lpc = "return" /\ dirp = "DIR" /\ ec = ENOENT
  /\ argv1 = << 100, 47, 97, 98 >>
  /\ fs[DirD] = { << 97 >>, << 98 >>, << 65, 66 >> }

\* C5: on a consistent tree whose parent directory exists and does not list
\* the target at the start, a run in which no create/unlink fails terminates,
\* and terminates with status 0 after lookups returning ENOENT, 0, ENOENT.
C5_Premise == consistent /\ ParentExists /\ ~Listed(fs0) /\ ~osFailed
C5_ConsistentRunSucceeds ==
  /\ [](~Terminated => <>Terminated)
  /\ []((Terminated /\ C5_Premise) => (status = EXIT_OK /\ results = Expected))
  /\ []((C5_Premise /\ Len(results) >= 2) => results[2] = 0)
C5_Witness == C5_Premise /\ status = EXIT_OK /\ run = 1

\* C6: only the target entry of the parent directory is ever added or removed,
\* and only by the create or the unlink step; steps of lookup_file leave the
\* tree alone; create and unlink are issued at most once, create first; a run
\* that ends with status 0 leaves the tree as it was at its start, without
\* the target.
C6_Frame ==
  /\ \A d \in DOMAIN fs' :
       /\ d # Basedir(argv1) => fs'[d] = fs0'[d]
       /\ fs'[d] \ {Target} = fs0'[d] \ {Target}
  /\ DOMAIN fs' = DOMAIN fs0'
  /\ fs' # fs => (Calls("open") \/ Calls("unlink"))
  /\ Count("open", calls') <= 1
  /\ Count("unlink", calls') <= 1
  /\ Issued("unlink")' => Issued("open")'
  /\ status' = EXIT_OK => (~Listed(fs)' /\ fs' = fs0')
C6_OnlyTargetTouched == [][C6_Frame]_vars
C6_Witness ==
  /\ status = EXIT_OK /\ fs = fs0 /\ Count("unlink", calls) = 1
  /\ fs[DirD] # {}

\* C7: a create or unlink that returns -1 makes the process write one
\* diagnostic naming the call with the text of its errno and exit with code 1
\* (not the abort status); a call that does not fail writes nothing and eh
\* hands its value back to main.
C7_EhStep ==
  (Calls("open") \/ Calls("unlink")) =>
    IF rv' = -1
    THEN /\ status' = EXIT_EH
         /\ status' # SIGABRT_STATUS
         /\ pc' = "exited"
         /\ stderr' = Append(stderr, << calls'[Len(calls')], errno' >>)
    ELSE /\ stderr' = stderr
         /\ ehret' = rv'
         /\ status' = RUNNING
C7_OsFailureExitsOne == [][C7_EhStep]_vars
C7_Witness == status = EXIT_EH /\ stderr = << << "unlink", EIO >> >>

\* C8: at most one directory stream is open at any time, none is open when
\* lookup_file returns or between lookups, and no file descriptor is open
\* from the second lookup on.
C8_HandlesReleased ==
  /\ openDirs <= 1
  /\ lpc \in {"idle", "return"} => openDirs = 0
  /\ pc \in {"assert2", "unlink", "assert3", "return"} => openFds = {}
C8_Witness ==
  /\ pc = "assert2" /\ lpc = "return" /\ ec = 0
  /\ openDirs = 0 /\ openFds = {} /\ fd = FIRST_FD

\* C9: when the parent directory of the path cannot be opened, the run issues
\* no readdir and no closedir on the unopened handle, no create and no unlink,
\* and it ends with a reported error and a non-zero exit status that is not a
\* crash.
C9_MissingParentIsReported ==
  ~ParentExists =>
    /\ \A i \in 1..Len(calls) : calls[i] = "opendir"
    /\ Terminated => (status \notin {EXIT_OK, SIGSEGV_STATUS} /\ stderr # << >>)

\* C10: of two successive runs on the same path, when the tree is consistent,
\* the parent exists, the target is not listed before the first and no
\* create/unlink fails, the first ends with status 0 and leaves the tree as
\* it found it, the second starts from that same tree, and when it ends it
\* ends with status 0 after the same three lookup results.
C10_TwiceInSuccession ==
  (run >= 2 /\ consistent /\ ParentExists /\ ~prev.osFailed
     /\ Basedir(argv1) \in DOMAIN prev.fs0 /\ Target \notin prev.fs0[Basedir(argv1)])
  => /\ prev.status = EXIT_OK
     /\ prev.fsEnd = prev.fs0
     /\ fs0 = prev.fs0
     /\ (Terminated /\ ~osFailed) => (status = EXIT_OK /\ results = prev.results)
C10_Witness ==
  /\ run = 2 /\ status = EXIT_OK /\ consistent
  /\ prev.status = EXIT_OK /\ results = prev.results
=============================================================================
